---- MODULE Spec2Model ----
(***************************************************************************)
(* GraphApp: the random graph generator (final_generate_random) and the    *)
(* graph analysis engine (final_perform_analysis).                         *)
(*                                                                         *)
(* A behaviour is one of two runs:                                         *)
(*  - a generate request (type, vertices, edges) is validated, resolved    *)
(*    and built step by step by make_random_graph, every random.randint    *)
(*    being a nondeterministic choice, and the graph it returns is stored; *)
(*  - a graph description is uploaded as it is.                            *)
(* The stored graph is then analysed by analyze_graph.                     *)
(*                                                                         *)
(* Further specifications over the same variables:                         *)
(*  - SpecOrders: the has_cycle job of graphs in every declaration and     *)
(*    edge order;                                                          *)
(*  - SpecPrim: the loop of the mst analysis, one iteration per step;      *)
(*  - SpecJobs: final_perform_analysis and final_delete_all_jobs, one      *)
(*    database or storage operation per step;                              *)
(*  - SpecClient: the client's web_service_req.                            *)
(*                                                                         *)
(* Python values: None is the integer -1 (vertex ids and counts are never  *)
(* negative), a dict is a sequence of <<key, value>> pairs in insertion    *)
(* order, a heap is the set of its tuples (heappop returns the least       *)
(* tuple), a float weight is the integer it was converted from.            *)
(***************************************************************************)
EXTENDS Integers, Sequences, FiniteSets, TLC

\* ------------------------------------------------------------------ bounds
\* Largest vertex count whose construction by the generator is explored.
MaxGenV == 4
\* Largest random weight the generator draws in the model (the code: 100).
MaxGenW == 2
\* Largest vertex count of an uploaded graph description.
MaxV == 4
\* Largest edge weight of an uploaded graph description (weights are 0..MaxW).
MaxW == 2

\* --------------------------------------------------------------- constants
Unspecified == -1
None == -1
DefaultMinV == 5
DefaultMaxV == 10
AnyMinE == 5
ForestMinE == 4
WeightLo == 1
WeightHi == 100
MaxTries == 3

GraphTypes == {"any", "complete", "connected", "acyclic", "tree", "bipartite"}
AnalysisTypes == {"is_connected", "has_cycle", "shortest_paths", "reachable_nodes", "mst"}

VARIABLES
  gpc,              \* position of the generate request
  gtype,            \* make_random_graph: type
  num_vertices,     \* make_random_graph: num_vertices
  num_edges,        \* make_random_graph: num_edges
  vertices,         \* make_random_graph: vertices
  edges,            \* make_random_graph: edges
  remaining_edges,  \* make_random_graph: remaining_edges ("connected")
  gi,               \* make_random_graph: loop variable i
  spore,            \* make_random_graph: loop variable spore ("acyclic")
  offset,           \* make_random_graph: offset ("acyclic")
  gen_result,       \* what make_random_graph returned, or that it raised
  status,           \* statusCode of the generate response, 0 while running
  message,          \* body message of the generate response
  graph_data,       \* the stored graph description
  analysis_results, \* what analyze_graph returned
  areq,             \* start_analysis: the request's type and root
  astatus,          \* statusCode of the start_analysis response, 0 before
  job,              \* the row of the jobs table
  trigger,          \* the asynchronous invocation of final_perform_analysis
  storage,          \* the keys of the results files in the bucket
  ppc,              \* position of the final_perform_analysis invocation
  deliveries,       \* how often the trigger has been delivered
  dpc,              \* position of the final_delete_all_jobs invocation
  drows,            \* final_delete_all_jobs: rows
  mpc,              \* position of the mst analysis in Prim's loop
  mst_pq,           \* mst: pq
  mst_es,           \* mst: mst_edges
  mst_vs,           \* mst: mst_vertices
  wpc,              \* position of web_service_req
  action,           \* web_service_req: action
  retries,          \* web_service_req: retries
  responses,        \* the status codes web_service_req has received
  returned          \* what web_service_req returned

vars == <<gpc, gtype, num_vertices, num_edges, vertices, edges, remaining_edges,
          gi, spore, offset, gen_result, status, message, graph_data,
          analysis_results, areq, astatus, job, trigger, storage, ppc,
          deliveries, dpc, drows, mpc, mst_pq, mst_es, mst_vs, wpc, action,
          retries, responses, returned>>

genLocals == <<gtype, num_vertices, num_edges, vertices, edges, remaining_edges,
               gi, spore, offset>>

jobVars == <<areq, astatus, job, trigger>>

raceVars == <<storage, ppc, deliveries, dpc, drows>>

primVars == <<mpc, mst_pq, mst_es, mst_vs>>

clientVars == <<wpc, action, retries, responses, returned>>

NoGraph == [present |-> FALSE, vertices |-> <<>>, edges |-> <<>>]

\* ---------------------------------------------------------------- helpers
\* random.randint(a, b): the outcomes; none when a > b (ValueError).
RandInt(a, b) == a .. b

\* random.randint(1, 100), explored up to MaxGenW.
RandWeight == {w \in RandInt(WeightLo, WeightHi) : w <= MaxGenW}

Range(s) == {s[i] : i \in DOMAIN s}

\* list.pop(k) / list.remove of the element at 1-based position k.
RemoveAt(s, k) == [i \in 1 .. Len(s) - 1 |-> IF i < k THEN s[i] ELSE s[i + 1]]

PairLess(p, q) == p[1] < q[1] \/ (p[1] = q[1] /\ p[2] < q[2])

RECURSIVE SortPairs(_)
SortPairs(S) ==
  IF S = {} THEN <<>>
  ELSE LET m == CHOOSE p \in S : \A q \in S \ {p} : PairLess(p, q)
       IN <<m>> \o SortPairs(S \ {m})

\* ------------------------------------------------- generate: validation
\* validate_parameters with the vertex test vertices < 0.
validate_parametersZero(type, nv, ne) ==
  IF type \notin GraphTypes THEN "graph type is invalid"
  ELSE IF nv # -1 /\ nv < 0 THEN "vertex count is not positive"
  ELSE IF ne # -1 /\ ne < 0 THEN "edge count is not non-negative"
  ELSE IF ne # -1 /\ nv = -1 THEN "cannot specify number of edges but not number of vertices"
  ELSE "ok"

\* validate_parameters without its last test.
validate_parametersUnpaired(type, nv, ne) ==
  IF type \notin GraphTypes THEN "graph type is invalid"
  ELSE IF nv # -1 /\ nv <= 0 THEN "vertex count is not positive"
  ELSE IF ne # -1 /\ ne < 0 THEN "edge count is not non-negative"
  ELSE "ok"

validate_parameters(type, nv, ne) ==
  IF type \notin GraphTypes THEN "graph type is invalid"
  ELSE IF nv # -1 /\ nv <= 0 THEN "vertex count is not positive"
  ELSE IF ne # -1 /\ ne < 0 THEN "edge count is not non-negative"
  ELSE IF ne # -1 /\ nv = -1 THEN "cannot specify number of edges but not number of vertices"
  ELSE "ok"

\* ------------------------------------------- make_random_graph: defaults
MaxEdges(v) == (v * (v - 1)) \div 2

\* Variant of EdgeDefault: "bipartite" draws up to the bound of "any".
EdgeDefaultWide(type, v) ==
  CASE type = "any" -> RandInt(AnyMinE, MaxEdges(v))
    [] type = "complete" -> {MaxEdges(v)}
    [] type = "connected" -> RandInt(v - 1, MaxEdges(v))
    [] type = "acyclic" -> RandInt(ForestMinE, v - 1)
    [] type = "tree" -> {v - 1}
    [] type = "bipartite" -> RandInt(ForestMinE, MaxEdges(v))

EdgeDefault(type, v) ==
  CASE type = "any" -> RandInt(AnyMinE, MaxEdges(v))
    [] type = "complete" -> {MaxEdges(v)}
    [] type = "connected" -> RandInt(v - 1, MaxEdges(v))
    [] type = "acyclic" -> RandInt(ForestMinE, v - 1)
    [] type = "tree" -> {v - 1}
    [] type = "bipartite" -> RandInt(ForestMinE, (v * v) \div 4)

Infeasible(type, v, e) ==
  CASE type = "any" -> e > MaxEdges(v)
    [] type = "complete" -> e # MaxEdges(v)
    [] type = "connected" -> e > MaxEdges(v) \/ e < v - 1
    [] type = "acyclic" -> e > v - 1
    [] type = "tree" -> e # v - 1
    [] type = "bipartite" -> e > (v * v) \div 4

\* Variant of GroupA: the split test is i <= num_vertices // 2.
GroupAWide(v) == {i \in 0 .. v - 1 : i <= v \div 2}

GroupA(v) == {i \in 0 .. v - 1 : i < v \div 2}
GroupB(v) == (0 .. v - 1) \ GroupA(v)

\* Variant of PoolPairs: the inner loop starts at start + 2.
PoolPairsSkipping(type, v) ==
  IF type = "bipartite"
  THEN SortPairs(GroupA(v) \X GroupB(v))
  ELSE SortPairs({p \in (0 .. v - 1) \X (0 .. v - 1) : p[1] + 1 < p[2]})

\* Variant of PoolPairs: the inner loop starts at start.
PoolPairsWithLoops(type, v) ==
  IF type = "bipartite"
  THEN SortPairs(GroupA(v) \X GroupB(v))
  ELSE SortPairs({p \in (0 .. v - 1) \X (0 .. v - 1) : p[1] <= p[2]})

\* The (start, end) pairs in the order the nested loops produce them.
PoolPairs(type, v) ==
  IF type = "bipartite"
  THEN SortPairs(GroupA(v) \X GroupB(v))
  ELSE SortPairs({p \in (0 .. v - 1) \X (0 .. v - 1) : p[1] < p[2]})

\* Position (1-based) of the first edge [other, i, _] of a list, 0 when none.
FindEdge(list, other, i) ==
  LET hits == {k \in DOMAIN list : list[k][1] = other /\ list[k][2] = i}
  IN IF hits = {} THEN 0 ELSE CHOOSE k \in hits : \A j \in hits : k <= j

\* Variant of ConnectedTreeLoop: range(1, num_vertices - 1).
ConnectedTreeLoopShort(i) == i < num_vertices - 1

\* "connected": for i in range(1, num_vertices), the loop goes on at i.
ConnectedTreeLoop(i) == i < num_vertices

\* Variant of TreeLoop: range(1, num_vertices - 1).
TreeLoopShort(i) == i < num_vertices - 1

\* "tree": for i in range(1, num_vertices), the loop goes on at i.
TreeLoop(i) == i < num_vertices

SporeCount == num_vertices - num_edges

\* Variant of NumSporeVertices: the remainder is not handed out.
NumSporeVerticesEven == num_vertices \div SporeCount

NumSporeVertices ==
  (num_vertices \div SporeCount)
    + (IF spore < num_vertices % SporeCount THEN 1 ELSE 0)

\* ------------------------------------------------------ generate: actions
\* lambda_handler: validate_parameters; a failure is the 400 response.
Validate ==
  /\ gpc = "validate"
  /\ IF validate_parameters(gtype, num_vertices, num_edges) = "ok"
     THEN /\ gpc' = "resolve"
          /\ UNCHANGED <<status, message>>
     ELSE /\ gpc' = "done"
          /\ status' = 400
          /\ message' = validate_parameters(gtype, num_vertices, num_edges)
  /\ UNCHANGED <<genLocals, gen_result, graph_data, analysis_results, jobVars, raceVars, primVars, clientVars>>

\* make_random_graph: the defaults of the unspecified counts and the
\* feasibility test of the selected case.
Resolve ==
  /\ gpc = "resolve"
  /\ \E v \in (IF num_vertices = Unspecified
               THEN RandInt(DefaultMinV, DefaultMaxV) ELSE {num_vertices}) :
       /\ num_vertices' = v
       /\ IF num_edges = Unspecified /\ EdgeDefault(gtype, v) = {}
          THEN /\ num_edges' = num_edges
               /\ gen_result' = [kind |-> "fault", message |-> "empty range for randrange()"]
               /\ gpc' = "returned"
          ELSE \E e \in (IF num_edges = Unspecified
                         THEN EdgeDefault(gtype, v) ELSE {num_edges}) :
                 /\ num_edges' = e
                 /\ IF Infeasible(gtype, v, e)
                    THEN /\ gen_result' = [kind |-> "error",
                                           message |-> "number of vertices and edges is illegal"]
                         /\ gpc' = "returned"
                    ELSE /\ gen_result' = gen_result
                         /\ gpc' = "vertices"
  /\ UNCHANGED <<gtype, vertices, edges, remaining_edges, gi, spore, offset,
                 status, message, graph_data, analysis_results, jobVars, raceVars, primVars, clientVars>>

\* make_random_graph: "create all vertices", and the entry of the first loop.
CreateVertices ==
  /\ gpc = "vertices"
  /\ num_vertices <= MaxGenV
  /\ vertices' = [i \in 1 .. num_vertices |-> i - 1]
  /\ edges' = <<>>
  /\ remaining_edges' = <<>>
  /\ gi' = 1
  /\ spore' = 0
  /\ offset' = 0
  /\ gpc' = CASE gtype = "acyclic" -> "spores"
              [] gtype = "tree" -> "attach"
              [] OTHER -> "pool"
  /\ UNCHANGED <<gtype, num_vertices, num_edges, gen_result, status, message, graph_data,
                 analysis_results, jobVars, raceVars, primVars, clientVars>>

\* One iteration of the nested start/end (or A/B) loops: the next pair with a
\* random weight, appended to edges, or to remaining_edges for "connected".
AddPoolEdge ==
  /\ gpc = "pool"
  /\ LET pairs == PoolPairs(gtype, num_vertices)
         list == IF gtype = "connected" THEN remaining_edges ELSE edges
         k == Len(list) + 1
     IN /\ k <= Len(pairs)
        /\ \E w \in RandWeight :
             LET edge == <<pairs[k][1], pairs[k][2], w>>
             IN IF gtype = "connected"
                THEN /\ remaining_edges' = Append(remaining_edges, edge)
                     /\ edges' = edges
                ELSE /\ edges' = Append(edges, edge)
                     /\ remaining_edges' = remaining_edges
  /\ UNCHANGED <<gpc, gtype, num_vertices, num_edges, vertices, gi, spore, offset,
                 gen_result, status, message, graph_data, analysis_results, jobVars, raceVars, primVars, clientVars>>

\* "any", "bipartite": delete random edges until we get to num_edges.
RemoveRandomEdge ==
  /\ gpc = "remove"
  /\ Len(edges) > num_edges
  /\ \E rand_edge \in RandInt(0, Len(edges) - 1) :
       edges' = RemoveAt(edges, rand_edge + 1)
  /\ UNCHANGED <<gpc, gtype, num_vertices, num_edges, vertices, remaining_edges,
                 gi, spore, offset, gen_result, status, message, graph_data,
                 analysis_results, jobVars, raceVars, primVars, clientVars>>

\* "connected": start with a tree, vertex i attaches itself to a prior vertex.
ConnectedAttach ==
  /\ gpc = "tree"
  /\ ConnectedTreeLoop(gi)
  /\ \E other \in RandInt(0, gi - 1) :
       LET k == FindEdge(remaining_edges, other, gi)
       IN IF k = 0
          THEN /\ gen_result' = [kind |-> "fault",
                     message |-> "could not find selected edge when building connected graph"]
               /\ gpc' = "returned"
               /\ UNCHANGED <<edges, remaining_edges, gi>>
          ELSE /\ edges' = Append(edges, remaining_edges[k])
               /\ remaining_edges' = RemoveAt(remaining_edges, k)
               /\ gi' = gi + 1
               /\ UNCHANGED <<gen_result, gpc>>
  /\ UNCHANGED <<gtype, num_vertices, num_edges, vertices, spore, offset, status, message,
                 graph_data, analysis_results, jobVars, raceVars, primVars, clientVars>>

\* "connected": add remaining edges until we get to num_edges.
ConnectedAddEdge ==
  /\ gpc = "add"
  /\ Len(edges) < num_edges
  /\ IF RandInt(0, Len(remaining_edges) - 1) = {}
     THEN /\ gen_result' = [kind |-> "fault", message |-> "empty range for randrange()"]
          /\ gpc' = "returned"
          /\ UNCHANGED <<edges, remaining_edges>>
     ELSE \E rand_edge \in RandInt(0, Len(remaining_edges) - 1) :
            /\ edges' = Append(edges, remaining_edges[rand_edge + 1])
            /\ remaining_edges' = RemoveAt(remaining_edges, rand_edge + 1)
            /\ UNCHANGED <<gen_result, gpc>>
  /\ UNCHANGED <<gtype, num_vertices, num_edges, vertices, gi, spore, offset, status, message,
                 graph_data, analysis_results, jobVars, raceVars, primVars, clientVars>>

\* Variant of SporeParents: randint(0, i - 1).
SporeParentsAny(off, i) == RandInt(0, i - 1)

\* "acyclic": random.randint(offset, i - 1), a prior vertex of the spore.
SporeParents(off, i) == RandInt(off, i - 1)

\* "acyclic": vertex i of the current spore attaches to a prior spore vertex.
SporeAttach ==
  /\ gpc = "spores"
  /\ spore < SporeCount
  /\ gi < offset + NumSporeVertices
  /\ \E parent \in SporeParents(offset, gi) : \E w \in RandWeight :
       edges' = Append(edges, <<parent, gi, w>>)
  /\ gi' = gi + 1
  /\ UNCHANGED <<gpc, gtype, num_vertices, num_edges, vertices, remaining_edges,
                 spore, offset, gen_result, status, message, graph_data, analysis_results, jobVars, raceVars, primVars, clientVars>>

\* "acyclic": the spore is complete; offset += num_spore_vertices, next spore.
SporeNext ==
  /\ gpc = "spores"
  /\ spore < SporeCount
  /\ ~(gi < offset + NumSporeVertices)
  /\ offset' = offset + NumSporeVertices
  /\ gi' = offset + NumSporeVertices + 1
  /\ spore' = spore + 1
  /\ UNCHANGED <<gpc, gtype, num_vertices, num_edges, vertices, edges,
                 remaining_edges, gen_result, status, message, graph_data, analysis_results, jobVars, raceVars, primVars, clientVars>>

\* "tree": vertex i attaches itself to a prior vertex.
TreeAttach ==
  /\ gpc = "attach"
  /\ TreeLoop(gi)
  /\ \E parent \in RandInt(0, gi - 1) : \E w \in RandWeight :
       edges' = Append(edges, <<parent, gi, w>>)
  /\ gi' = gi + 1
  /\ UNCHANGED <<gpc, gtype, num_vertices, num_edges, vertices, remaining_edges,
                 spore, offset, gen_result, status, message, graph_data, analysis_results, jobVars, raceVars, primVars, clientVars>>

\* The loop at gpc has run to its end.
LoopDone ==
  CASE gpc = "pool" ->
         Len(IF gtype = "connected" THEN remaining_edges ELSE edges)
           >= Len(PoolPairs(gtype, num_vertices))
    [] gpc = "remove" -> ~(Len(edges) > num_edges)
    [] gpc = "tree" -> ~ConnectedTreeLoop(gi)
    [] gpc = "add" -> ~(Len(edges) < num_edges)
    [] gpc = "spores" -> ~(spore < SporeCount)
    [] gpc = "attach" -> ~TreeLoop(gi)
    [] OTHER -> FALSE

\* Leaving a loop: on to the next loop of the case, or
\* return {"vertices": vertices, "edges": edges}.
LoopExit ==
  /\ LoopDone
  /\ LET next == CASE gpc = "pool" /\ gtype \in {"any", "bipartite"} -> "remove"
                   [] gpc = "pool" /\ gtype = "connected" -> "tree"
                   [] gpc = "tree" -> "add"
                   [] OTHER -> "returned"
     IN /\ gpc' = next
        /\ gen_result' = IF next = "returned"
                         THEN [kind |-> "graph", message |-> ""]
                         ELSE gen_result
  /\ UNCHANGED <<genLocals, status, message, graph_data, analysis_results, jobVars, raceVars, primVars, clientVars>>

\* lambda_handler after make_random_graph: an error record is the 400
\* response, an exception the 500 response, a graph is stored (200).
GenerateRespond ==
  /\ gpc = "returned"
  /\ gpc' = "done"
  /\ CASE gen_result.kind = "graph" ->
            /\ graph_data' = [present |-> TRUE, vertices |-> vertices, edges |-> edges]
            /\ status' = 200
            /\ message' = "success"
       [] gen_result.kind = "error" ->
            /\ status' = 400
            /\ message' = gen_result.message
            /\ UNCHANGED graph_data
       [] OTHER ->
            /\ status' = 500
            /\ message' = gen_result.message
            /\ UNCHANGED graph_data
  /\ UNCHANGED <<genLocals, gen_result, analysis_results, jobVars, raceVars, primVars, clientVars>>

\* ------------------------------------------------- analyze_graph: dicts
Keys(d) == [i \in DOMAIN d |-> d[i][1]]

HasKey(d, k) == \E i \in DOMAIN d : d[i][1] = k

\* d[k] = w: a new key goes last, an old key keeps its place.
DictSet(d, k, w) ==
  IF HasKey(d, k)
  THEN [i \in DOMAIN d |-> IF d[i][1] = k THEN <<k, w>> ELSE d[i]]
  ELSE Append(d, <<k, w>>)

DictGet(d, k) == d[CHOOSE i \in DOMAIN d : d[i][1] = k][2]

\* An edge names a vertex that has no entry in graph_AL (KeyError).
Malformed(g) ==
  \E i \in DOMAIN g.edges :
    \/ g.edges[i][1] \notin Range(g.vertices)
    \/ g.edges[i][2] \notin Range(g.vertices)

RECURSIVE InsertEdgesOneWay(_, _)
\* InsertEdges without graph_AL[node_B][node_A] = weight.
InsertEdgesOneWay(al, es) ==
  IF es = <<>> THEN al
  ELSE LET node_A == Head(es)[1]
           node_B == Head(es)[2]
           weight == Head(es)[3]
           al1 == [al EXCEPT ![node_A] = DictSet(@, node_B, weight)]
       IN InsertEdgesOneWay(al1, Tail(es))

RECURSIVE InsertEdges(_, _)
\* The loop over graph_data["edges"]: both directions get the weight.
InsertEdges(al, es) ==
  IF es = <<>> THEN al
  ELSE LET node_A == Head(es)[1]
           node_B == Head(es)[2]
           weight == Head(es)[3]
           al1 == [al EXCEPT ![node_A] = DictSet(@, node_B, weight)]
           al2 == [al1 EXCEPT ![node_B] = DictSet(@, node_A, weight)]
       IN InsertEdges(al2, Tail(es))

\* graph_AL: { start => { end => weight } }
BuildAL(g) == InsertEdges([v \in Range(g.vertices) |-> <<>>], g.edges)

\* ---------------------------------------------- analyze_graph: results
Result(type, kind) ==
  [type |-> type, kind |-> kind, bool |-> FALSE, list |-> <<>>, root |-> None,
   paths |-> <<>>, reachable |-> <<>>]

Raised(type) == Result(type, "fault")
DataBool(type, b) == [Result(type, "bool") EXCEPT !.bool = b]
DataList(type, l) == [Result(type, "list") EXCEPT !.list = l]

\* ------------------------------------------ breadth-first reachability
RECURSIVE BfsNoEnqueue(_, _, _)
\* Bfs without queue.append(destination).
BfsNoEnqueue(al, queue, reachable) ==
  IF Len(queue) = 0 THEN reachable
  ELSE LET cur == Head(queue)
           new == SelectSeq(Keys(al[cur]), LAMBDA d : d \notin reachable)
       IN BfsNoEnqueue(al, Tail(queue), reachable \cup Range(new))

RECURSIVE Bfs(_, _, _)
Bfs(al, queue, reachable) ==
  IF Len(queue) = 0 THEN reachable
  ELSE LET cur == Head(queue)
           new == SelectSeq(Keys(al[cur]), LAMBDA d : d \notin reachable)
       IN Bfs(al, Tail(queue) \o new, reachable \cup Range(new))

\* IsConnected that answers true for an empty vertex list.
IsConnectedVacuous(g, al) ==
  IF Len(g.vertices) = 0 THEN DataBool("is_connected", TRUE)
  ELSE LET root == g.vertices[1]
           reachable == Bfs(al, <<root>>, {root})
       IN DataBool("is_connected", \A i \in DOMAIN g.vertices : g.vertices[i] \in reachable)

IsConnected(g, al) ==
  IF Len(g.vertices) = 0 THEN Raised("is_connected")
  ELSE LET root == g.vertices[1]
           reachable == Bfs(al, <<root>>, {root})
       IN DataBool("is_connected", \A i \in DOMAIN g.vertices : g.vertices[i] \in reachable)

RECURSIVE ListOfSet(_)
\* list(reachable): every member of the set once, small integers in
\* ascending order.
ListOfSet(S) ==
  IF S = {} THEN <<>>
  ELSE LET m == CHOOSE x \in S : \A y \in S : x <= y
       IN <<m>> \o ListOfSet(S \ {m})

\* ReachableNodes with reachable = set() in place of set([root]).
ReachableNodesEmptyStart(root, al) ==
  IF root \notin DOMAIN al THEN Raised("reachable_nodes")
  ELSE [Result("reachable_nodes", "reachable") EXCEPT
          !.root = root, !.reachable = ListOfSet(Bfs(al, <<root>>, {}))]

ReachableNodes(root, al) ==
  IF root \notin DOMAIN al THEN Raised("reachable_nodes")
  ELSE [Result("reachable_nodes", "reachable") EXCEPT
          !.root = root, !.reachable = ListOfSet(Bfs(al, <<root>>, {root}))]

\* ------------------------------------------------------- cycle detection
IndexOf(s, x) == CHOOSE i \in DOMAIN s : s[i] = x /\ \A j \in DOMAIN s : s[j] = x => i <= j

\* Variant of VisitNeighbour: the immediate predecessor is visited too.
VisitAnyNeighbour(ancestry, destination) == TRUE

\* A neighbour is visited unless it is the immediate predecessor.
VisitNeighbour(ancestry, destination) ==
  Len(ancestry) = 0 \/ destination # ancestry[1]

\* Variant of CycleOf: the slice is ancestry[0:ancestry.index(cur)].
CycleOfShort(ancestry, cur) == <<cur>> \o SubSeq(ancestry, 1, IndexOf(ancestry, cur) - 1)

\* Variant of CycleOf: the whole ancestry, not the slice up to cur.
CycleOfWhole(ancestry, cur) == <<cur>> \o ancestry

\* ancestry[0:ancestry.index(cur) + 1] with cur inserted in front.
CycleOf(ancestry, cur) == <<cur>> \o SubSeq(ancestry, 1, IndexOf(ancestry, cur))

RECURSIVE dfs(_, _, _, _)
RECURSIVE DfsNeighbours(_, _, _, _, _)
\* dfs(cur, ancestry): [found, cycle] is its return value, seen the set it leaves.
dfs(al, cur, ancestry, seen) ==
  IF cur \in Range(ancestry)
  THEN [found |-> TRUE, cycle |-> CycleOf(ancestry, cur), seen |-> seen \cup {cur}]
  ELSE DfsNeighbours(al, ancestry, <<cur>> \o ancestry, Keys(al[cur]), seen \cup {cur})

DfsNeighbours(al, ancestry, copy, dests, seen) ==
  IF dests = <<>> THEN [found |-> FALSE, cycle |-> <<>>, seen |-> seen]
  ELSE IF VisitNeighbour(ancestry, Head(dests))
  THEN LET res == dfs(al, Head(dests), copy, seen)
       IN IF res.found THEN res
          ELSE DfsNeighbours(al, ancestry, copy, Tail(dests), res.seen)
  ELSE DfsNeighbours(al, ancestry, copy, Tail(dests), seen)

\* CycleRoots that tries the first declared vertex only.
CycleRootsFirstOnly(al, roots, seen) ==
  IF roots = <<>> THEN DataBool("has_cycle", FALSE)
  ELSE LET res == dfs(al, Head(roots), <<>>, seen)
       IN IF res.found THEN DataList("has_cycle", res.cycle)
          ELSE DataBool("has_cycle", FALSE)

RECURSIVE CycleRoots(_, _, _)
CycleRoots(al, roots, seen) ==
  IF roots = <<>> THEN DataBool("has_cycle", FALSE)
  ELSE IF Head(roots) \in seen THEN CycleRoots(al, Tail(roots), seen)
  ELSE LET res == dfs(al, Head(roots), <<>>, seen)
       IN IF res.found THEN DataList("has_cycle", res.cycle)
          ELSE CycleRoots(al, Tail(roots), res.seen)

HasCycle(g, al) == CycleRoots(al, g.vertices, {})

\* ------------------------------------------------------------- heaps
TupleLess(t, u) ==
  \E i \in DOMAIN t : t[i] < u[i] /\ \A j \in 1 .. i - 1 : t[j] = u[j]

\* Variant of HeapMin: the greatest tuple is popped.
HeapGreatest(pq) == CHOOSE t \in pq : \A u \in pq \ {t} : TupleLess(u, t)

\* heapq.heappop: the least tuple of the heap.
HeapMin(pq) == CHOOSE t \in pq : \A u \in pq \ {t} : TupleLess(t, u)

\* ------------------------------------------------------- shortest paths
\* Variant of Improves: a known distance is never lowered.
ImprovesUnknownOnly(dist, cur, destination, weight) == destination \notin DOMAIN dist

\* An edge improves on the distance known for its destination.
Improves(dist, cur, destination, weight) ==
  destination \notin DOMAIN dist \/ weight + dist[cur] < dist[destination]

RECURSIVE Relax(_, _, _)
\* "relax all neighbors" of cur; st = [dist, pred, pq].
Relax(cur, nbrs, st) ==
  IF nbrs = <<>> THEN st
  ELSE LET destination == Head(nbrs)[1]
           weight == Head(nbrs)[2]
           d == weight + st.dist[cur]
       IN IF Improves(st.dist, cur, destination, weight)
          THEN Relax(cur, Tail(nbrs),
                     [dist |-> (destination :> d) @@ st.dist,
                      pred |-> (destination :> cur) @@ st.pred,
                      pq |-> st.pq \cup {<<d, destination>>}])
          ELSE Relax(cur, Tail(nbrs), st)

RECURSIVE Dijkstra(_, _, _)
Dijkstra(al, st, visited) ==
  IF st.pq = {} THEN st
  ELSE LET top == HeapMin(st.pq)
           cur == top[2]
           popped == [st EXCEPT !.pq = @ \ {top}]
       IN IF cur \in visited THEN Dijkstra(al, popped, visited)
          ELSE Dijkstra(al, Relax(cur, al[cur], popped), visited \cup {cur})

RECURSIVE BacktraceBelowRoot(_, _, _)
\* Variant of Backtrace: the walk stops at the vertex whose pred is None.
BacktraceBelowRoot(pred, cur, path) ==
  IF pred[cur] = None THEN path ELSE BacktraceBelowRoot(pred, pred[cur], <<cur>> \o path)

RECURSIVE Backtrace(_, _, _)
\* "backtrace shortest path": insert cur in front, go on with pred[cur].
Backtrace(pred, cur, path) ==
  IF cur = None THEN path ELSE Backtrace(pred, pred[cur], <<cur>> \o path)

\* PathEntry that keeps the entry of the first loop for an unreached vertex.
PathEntryKept(st, v) ==
  IF v \in DOMAIN st.pred
  THEN [distance |-> st.dist[v], has_path |-> TRUE,
        path |-> Backtrace(st.pred, v, <<>>)]
  ELSE [distance |-> 0, has_path |-> TRUE, path |-> <<>>]

\* The entry of vertex v: [dist[v], path] when v is in dist, [-1, None]
\* otherwise.
PathEntry(st, v) ==
  IF v \in DOMAIN st.dist
  THEN [distance |-> st.dist[v], has_path |-> TRUE,
        path |-> Backtrace(st.pred, v, <<>>)]
  ELSE [distance |-> -1, has_path |-> FALSE, path |-> <<>>]

ShortestPaths(root, g, al) ==
  IF root \notin DOMAIN al THEN Raised("shortest_paths")
  ELSE LET st == Dijkstra(al, [dist |-> (root :> 0), pred |-> (root :> None),
                               pq |-> {<<0, root>>}], {})
           shortest_paths == [v \in Range(g.vertices) |-> PathEntry(st, v)]
       IN [Result("shortest_paths", "paths") EXCEPT !.root = root, !.paths = shortest_paths]

\* ------------------------------------------------ minimum spanning tree
\* The fringe edges pushed when vertex v joins the tree.
Fringe(al, v, mst_vertices) ==
  {<<al[v][i][2], v, al[v][i][1]>> :
     i \in {k \in DOMAIN al[v] : al[v][k][1] \notin Range(mst_vertices)}}

\* Variant of OffFringe: no popped edge is skipped.
OffFringeNever(cur, mst_vertices) == FALSE

\* "edge no longer on fringe": both ends of cur are in the tree.
OffFringe(cur, mst_vertices) ==
  cur[2] \in Range(mst_vertices) /\ cur[3] \in Range(mst_vertices)

\* One iteration of "while len(pq) > 0": the least edge is popped and
\* skipped, or it joins the tree and the fringe of its new vertex is pushed.
PrimIter(al, pq, mst_edges, mst_vertices) ==
  LET cur == HeapMin(pq)
      rest == pq \ {cur}
  IN IF OffFringe(cur, mst_vertices)
     THEN [pq |-> rest, mst_edges |-> mst_edges, mst_vertices |-> mst_vertices]
     ELSE LET new == IF cur[2] \in Range(mst_vertices) THEN cur[3] ELSE cur[2]
              grown == Append(mst_vertices, new)
          IN [pq |-> rest \cup Fringe(al, new, grown),
              mst_edges |-> Append(mst_edges, cur), mst_vertices |-> grown]

RECURSIVE Prim(_, _, _, _)
Prim(al, pq, mst_edges, mst_vertices) ==
  IF pq = {} THEN mst_edges
  ELSE LET st == PrimIter(al, pq, mst_edges, mst_vertices)
       IN Prim(al, st.pq, st.mst_edges, st.mst_vertices)

\* Mst without the connectivity test before Prim.
MstUnchecked(g, al) ==
  IF Len(g.vertices) = 0 THEN Raised("mst")
  ELSE LET root == g.vertices[1]
           mst_edges == Prim(al, {<<al[root][i][2], root, al[root][i][1]>> :
                                    i \in DOMAIN al[root]}, <<>>, <<root>>)
       IN DataList("mst", [i \in DOMAIN mst_edges |->
                             <<mst_edges[i][2], mst_edges[i][3], mst_edges[i][1]>>])

Mst(g, al) ==
  IF Len(g.vertices) = 0 THEN Raised("mst")
  ELSE LET root == g.vertices[1]
           reachable == Bfs(al, <<root>>, {root})
       IN IF \E i \in DOMAIN g.vertices : g.vertices[i] \notin reachable
          THEN DataBool("mst", FALSE)
          ELSE LET mst_edges == Prim(al, {<<al[root][i][2], root, al[root][i][1]>> :
                                            i \in DOMAIN al[root]}, <<>>, <<root>>)
               IN DataList("mst", [i \in DOMAIN mst_edges |->
                                     <<mst_edges[i][2], mst_edges[i][3], mst_edges[i][1]>>])

\* --------------------------------------------------------- analyze_graph
analyze_graph(type, root, g) ==
  IF Malformed(g) THEN Raised(type)
  ELSE LET graph_AL == BuildAL(g)
       IN CASE type = "is_connected" -> IsConnected(g, graph_AL)
            [] type = "has_cycle" -> HasCycle(g, graph_AL)
            [] type = "shortest_paths" -> ShortestPaths(root, g, graph_AL)
            [] type = "reachable_nodes" -> ReachableNodes(root, graph_AL)
            [] type = "mst" -> Mst(g, graph_AL)
            [] OTHER -> Raised(type)

\* ------------------------------------------------------ start_analysis
RootedTypes == {"shortest_paths", "reachable_nodes"}

\* validate_analysis_parameters without the test that the root is declared.
validate_analysis_parametersAnyRoot(type, root, g) ==
  IF type \notin AnalysisTypes THEN "analysis type is invalid"
  ELSE IF type \in RootedTypes /\ root = None
       THEN "analysis type requires a root node identifier"
       ELSE "ok"

\* start_analysis validate_parameters: the message of the 400 response,
\* "ok" where the code returns None.
validate_analysis_parameters(type, root, g) ==
  IF type \notin AnalysisTypes THEN "analysis type is invalid"
  ELSE IF type \in RootedTypes
       THEN IF root = None THEN "analysis type requires a root node identifier"
            ELSE IF root \notin Range(g.vertices)
                 THEN "root node does not exist in the graph"
                 ELSE "ok"
       ELSE "ok"

\* An identifier that g does not declare.
Undeclared(g) == Len(g.vertices)

\* The roots a request of the type is sent with: none, a declared vertex
\* or an undeclared identifier.
RequestRoots(type, g) ==
  IF type \in RootedTypes THEN Range(g.vertices) \cup {None, Undeclared(g)}
  ELSE IF type \in AnalysisTypes THEN {None, Undeclared(g)}
  ELSE {None}

NoJob == [exists |-> FALSE, status |-> "", resultsfilekey |-> "NULL"]
NoTrigger == [pending |-> FALSE, type |-> "none", root |-> None]

\* final_start_analysis lambda_handler on the stored graph: a request that
\* fails validation is answered 400; otherwise the job row is inserted
\* with status "processing" and final_perform_analysis is invoked
\* asynchronously.
StartAnalysis ==
  /\ graph_data.present
  /\ areq.type = "none"
  /\ \E type \in AnalysisTypes \cup {"bogus"} :
       \E root \in RequestRoots(type, graph_data) :
         /\ areq' = [type |-> type, root |-> root]
         /\ IF validate_analysis_parameters(type, root, graph_data) # "ok"
            THEN /\ astatus' = 400
                 /\ UNCHANGED <<job, trigger>>
            ELSE /\ job' = [exists |-> TRUE, status |-> "processing",
                            resultsfilekey |-> "NULL"]
                 /\ trigger' = [pending |-> TRUE, type |-> type, root |-> root]
                 /\ astatus' = 200
  /\ UNCHANGED <<gpc, genLocals, gen_result, status, message, graph_data,
                 analysis_results, raceVars, primVars, clientVars>>

\* JobAfter whose exception handler leaves the row alone.
JobAfterSilent(j, results) ==
  IF results.kind = "fault" THEN j
  ELSE [j EXCEPT !.status = "completed", !.resultsfilekey = "results"]

\* The job row after the analysis: completed with the key of the stored
\* results, or "error" when the analysis raised.
JobAfter(j, results) ==
  IF results.kind = "fault" THEN [j EXCEPT !.status = "error"]
  ELSE [j EXCEPT !.status = "completed", !.resultsfilekey = "results"]

\* final_perform_analysis lambda_handler on its trigger: the analysis of
\* the job's graph; results are stored and the job completed, and any
\* exception sets the job's status to "error".
Analyze ==
  /\ trigger.pending
  /\ trigger' = NoTrigger
  /\ IF ~job.exists \/ job.status # "processing"
     THEN /\ job' = IF job.exists THEN [job EXCEPT !.status = "error"] ELSE job
          /\ UNCHANGED analysis_results
     ELSE LET results == analyze_graph(trigger.type, trigger.root, graph_data)
          IN /\ analysis_results' = results
             /\ job' = JobAfter(job, results)
  /\ UNCHANGED <<gpc, genLocals, gen_result, status, message, graph_data,
                 areq, astatus, raceVars, primVars, clientVars>>

\* ------------------------------------------------------ uploaded graphs
Pairs(n) == {p \in (0 .. n - 1) \X (0 .. n - 1) : p[1] < p[2]}

\* The edge list of a choice f of the pairs' weights (-1: no such edge).
EdgeList(n, f) ==
  LET ps == SelectSeq(SortPairs(Pairs(n)), LAMBDA p : f[p] # -1)
  IN [i \in DOMAIN ps |-> <<ps[i][1], ps[i][2], f[ps[i]]>>]

\* The vertices 0 .. n-1 declared in ascending or in descending order.
Declarations(n) == {[i \in 1 .. n |-> i - 1], [i \in 1 .. n |-> n - i]}

\* Graph descriptions without self-loops or parallel edges, weights 0..MaxW.
SimpleGraphs ==
  UNION {{[present |-> TRUE, vertices |-> vs, edges |-> EdgeList(n, f)] :
            vs \in Declarations(n), f \in [Pairs(n) -> -1 .. MaxW]} : n \in 0 .. MaxV}

\* Edge lists on the vertices 0 .. n-1 with an edge to or from the
\* undeclared identifier n, first in the list or after a proper edge.
DanglingEdgeLists(n) ==
  {<< <<0, n, w>> >> : w \in 0 .. MaxW}
    \cup {<< <<n, 0, w>> >> : w \in 0 .. MaxW}
    \cup (IF n >= 2 THEN {<< <<0, 1, w>>, <<1, n, w>> >> : w \in 0 .. MaxW} ELSE {})

\* Graph descriptions with an edge whose endpoint is not declared.
DanglingGraphs ==
  UNION {{[present |-> TRUE, vertices |-> [i \in 1 .. n |-> i - 1], edges |-> es] :
            es \in DanglingEdgeLists(n)} : n \in 1 .. MaxV}

UploadedGraphs == SimpleGraphs \cup DanglingGraphs

\* ------------------------------------------- graphs in every order
\* The sequences that list each member of S once.
Orderings(S) ==
  {f \in [1 .. Cardinality(S) -> S] : \A j, k \in DOMAIN f : (f[j] = f[k]) => (j = k)}

\* The edge list of a sequence of pairs, every weight w.
Weighted(ps, w) == [i \in DOMAIN ps |-> <<ps[i][1], ps[i][2], w>>]

\* Every set of pairs of the vertices 0 .. n-1, listed in every order.
PairLists(n) == UNION {Orderings(T) : T \in SUBSET Pairs(n)}

\* g declares the vertices 0 .. n-1 (n <= m) in some order and lists some
\* set of edges in some order.
IsOrderedGraph(g, m) ==
  \E n \in 0 .. m :
    \E vs \in Orderings(0 .. n - 1) :
      \E ps \in PairLists(n) :
        g = [present |-> TRUE, vertices |-> vs, edges |-> Weighted(ps, WeightLo)]

\* Graph descriptions with a parallel edge: an edge list in any order
\* followed by one of its edges again, with another weight.
ParallelEdgeLists(n) ==
  UNION {{Weighted(ps, WeightLo) \o Weighted(<<ps[k]>>, WeightLo + 1) : k \in DOMAIN ps} :
           ps \in PairLists(n)}

\* g declares 0 .. n-1 (n <= m) and lists one of its edges twice.
IsParallelGraph(g, m) ==
  \E n \in 2 .. m :
    \E es \in ParallelEdgeLists(n) :
      g = [present |-> TRUE, vertices |-> [i \in 1 .. n |-> i - 1], edges |-> es]

\* ------------------------------------------------------- specification
\* No generate request is part of the run.
NoGeneration ==
  /\ gpc = "upload"
  /\ gtype = "none"
  /\ num_vertices = Unspecified
  /\ num_edges = Unspecified
  /\ vertices = <<>>
  /\ edges = <<>>
  /\ remaining_edges = <<>>
  /\ gi = 0
  /\ spore = 0
  /\ offset = 0
  /\ gen_result = [kind |-> "none", message |-> ""]
  /\ status = 0
  /\ message = ""

\* The bucket holds no results file; no invocation is under way.
NoRace ==
  /\ storage = {}
  /\ ppc = "idle"
  /\ deliveries = 0
  /\ dpc = "idle"
  /\ drows = <<>>

\* The mst analysis is not inside Prim's loop.
NoPrim ==
  /\ mpc = "idle"
  /\ mst_pq = {}
  /\ mst_es = <<>>
  /\ mst_vs = <<>>

\* The client sends no request.
NoClient ==
  /\ wpc = "idle"
  /\ action = "none"
  /\ retries = 0
  /\ responses = <<>>
  /\ returned = None

InitGenerate ==
  /\ gpc = "validate"
  /\ gtype \in GraphTypes \cup {"star"}
  /\ num_vertices \in -1 .. MaxGenV
  /\ num_edges \in (-2 .. MaxEdges(MaxGenV) + 1) \cup {100}
  /\ graph_data = NoGraph

InitUpload ==
  /\ gpc = "upload"
  /\ gtype = "none"
  /\ num_vertices = Unspecified
  /\ num_edges = Unspecified
  /\ graph_data \in UploadedGraphs

Init ==
  /\ InitGenerate \/ InitUpload
  /\ vertices = <<>>
  /\ edges = <<>>
  /\ remaining_edges = <<>>
  /\ gi = 0
  /\ spore = 0
  /\ offset = 0
  /\ gen_result = [kind |-> "none", message |-> ""]
  /\ status = 0
  /\ message = ""
  /\ analysis_results = Result("none", "none")
  /\ areq = [type |-> "none", root |-> None]
  /\ astatus = 0
  /\ job = NoJob
  /\ trigger = NoTrigger
  /\ NoRace
  /\ NoPrim
  /\ NoClient

Next ==
  \/ Validate
  \/ Resolve
  \/ CreateVertices
  \/ AddPoolEdge
  \/ RemoveRandomEdge
  \/ ConnectedAttach
  \/ ConnectedAddEdge
  \/ SporeAttach
  \/ SporeNext
  \/ TreeAttach
  \/ LoopExit
  \/ GenerateRespond
  \/ StartAnalysis
  \/ Analyze

Spec == Init /\ [][Next]_vars

\* ------------------------------------------------------ Prim's loop
\* analyze_graph("mst") is about to enter "while len(pq) > 0" on a graph
\* that passed its connectivity test: the heap holds the edges of the root.
InitPrim ==
  /\ NoGeneration
  /\ NoRace
  /\ NoClient
  /\ graph_data \in {g \in SimpleGraphs :
                       /\ Len(g.vertices) > 0
                       /\ Mst(g, BuildAL(g)).kind = "list"}
  /\ analysis_results = Result("none", "none")
  /\ areq = [type |-> "mst", root |-> None]
  /\ astatus = 200
  /\ job = [exists |-> TRUE, status |-> "processing", resultsfilekey |-> "NULL"]
  /\ trigger = NoTrigger
  /\ mpc = "loop"
  /\ LET root == graph_data.vertices[1]
         graph_AL == BuildAL(graph_data)
     IN /\ mst_pq = {<<graph_AL[root][i][2], root, graph_AL[root][i][1]>> :
                       i \in DOMAIN graph_AL[root]}
        /\ mst_vs = <<root>>
  /\ mst_es = <<>>

\* One iteration of the loop.
PrimStep ==
  /\ mpc = "loop"
  /\ mst_pq # {}
  /\ LET st == PrimIter(BuildAL(graph_data), mst_pq, mst_es, mst_vs)
     IN /\ mst_pq' = st.pq
        /\ mst_es' = st.mst_edges
        /\ mst_vs' = st.mst_vertices
  /\ UNCHANGED <<gpc, genLocals, gen_result, status, message, graph_data,
                 analysis_results, jobVars, raceVars, mpc, clientVars>>

\* len(pq) = 0: the loop is left and the edges are returned as
\* [start, end, weight].
PrimExit ==
  /\ mpc = "loop"
  /\ mst_pq = {}
  /\ mpc' = "done"
  /\ analysis_results' =
       DataList("mst", [i \in DOMAIN mst_es |-> <<mst_es[i][2], mst_es[i][3], mst_es[i][1]>>])
  /\ UNCHANGED <<gpc, genLocals, gen_result, status, message, graph_data,
                 jobVars, raceVars, mst_pq, mst_es, mst_vs, clientVars>>

NextPrim == PrimStep \/ PrimExit

\* The running loop goes on to its next iteration.
SpecPrim == InitPrim /\ [][NextPrim]_vars /\ WF_vars(NextPrim)

\* ---------------------------------------------------- web_service_req
HttpVerbs == {"GET", "POST", "DELETE"}

\* The status codes a response is returned for at once.
ValidStatuses == {200, 400, 404, 481, 482, 500}

\* The status codes the web service answers with in the model.
StatusCodes == ValidStatuses \cup {502, 503}

\* web_service_req(url, action, body) has been called: retries = 0.
InitClient ==
  /\ NoGeneration
  /\ NoRace
  /\ NoPrim
  /\ graph_data = NoGraph
  /\ analysis_results = Result("none", "none")
  /\ areq = [type |-> "none", root |-> None]
  /\ astatus = 0
  /\ job = NoJob
  /\ trigger = NoTrigger
  /\ wpc = "loop"
  /\ action \in HttpVerbs \cup {"PUT"}
  /\ retries = 0
  /\ responses = <<>>
  /\ returned = None

\* One pass of "while True": the request is sent and answered; a valid
\* status code ends the loop, any other counts a retry, and the third
\* retry ends the loop with the last response.
Request ==
  /\ wpc = "loop"
  /\ action \in HttpVerbs
  /\ \E status_code \in StatusCodes :
       /\ responses' = Append(responses, status_code)
       /\ IF status_code \in ValidStatuses
          THEN /\ wpc' = "returned"
               /\ returned' = status_code
               /\ UNCHANGED retries
          ELSE /\ retries' = retries + 1
               /\ IF retries + 1 < MaxTries
                  THEN UNCHANGED <<wpc, returned>>
                  ELSE /\ wpc' = "returned"
                       /\ returned' = status_code
  /\ UNCHANGED <<gpc, genLocals, gen_result, status, message, graph_data,
                 analysis_results, jobVars, raceVars, primVars, action>>

\* The request raises (no answer): the except clause returns None.
RequestRaises ==
  /\ wpc = "loop"
  /\ action \in HttpVerbs
  /\ wpc' = "returned"
  /\ returned' = None
  /\ UNCHANGED <<gpc, genLocals, gen_result, status, message, graph_data,
                 analysis_results, jobVars, raceVars, primVars, action, retries,
                 responses>>

\* "HTTP verb must be in ['GET', 'POST', 'DELETE']": None is returned.
BadVerb ==
  /\ wpc = "loop"
  /\ action \notin HttpVerbs
  /\ wpc' = "returned"
  /\ returned' = None
  /\ UNCHANGED <<gpc, genLocals, gen_result, status, message, graph_data,
                 analysis_results, jobVars, raceVars, primVars, action, retries,
                 responses>>

NextClient == Request \/ RequestRaises \/ BadVerb

SpecClient == InitClient /\ [][NextClient]_vars

\* ------------------------------- perform-analysis and delete_all_jobs
\* The handlers taken one database or storage operation at a time, so
\* that their operations interleave.
\* Largest vertex count of the stored graph of an interleaved job.
MaxJobV == 2
\* Largest number of deliveries of a job's perform-analysis event.
MaxDeliveries == 2

\* The key under which an invocation uploads its results file.
ResultsKey == "results"

\* The stored graphs of the jobs: at most MaxJobV declared vertices.
JobGraphs == {g \in UploadedGraphs : Len(g.vertices) <= MaxJobV}

InitJobs ==
  /\ NoGeneration
  /\ NoRace
  /\ NoPrim
  /\ NoClient
  /\ graph_data \in JobGraphs
  /\ analysis_results = Result("none", "none")
  /\ areq = [type |-> "none", root |-> None]
  /\ astatus = 0
  /\ job = NoJob
  /\ trigger = NoTrigger

\* final_perform_analysis up to the upload: the trigger is consumed, the
\* job row selected and its status tested, the graph analysed.  A missing
\* row, a status other than "processing" and a fault of the analysis all
\* raise into the except block.
PerformRead ==
  /\ trigger.pending
  /\ ppc = "idle"
  /\ trigger' = NoTrigger
  /\ deliveries' = deliveries + 1
  /\ IF ~job.exists \/ job.status # "processing"
     THEN /\ ppc' = "failed"
          /\ UNCHANGED analysis_results
     ELSE LET results == analyze_graph(trigger.type, trigger.root, graph_data)
          IN /\ analysis_results' = results
             /\ ppc' = IF results.kind = "fault" THEN "failed" ELSE "upload"
  /\ UNCHANGED <<gpc, genLocals, gen_result, status, message, graph_data,
                 areq, astatus, job, storage, dpc, drows, primVars, clientVars>>

\* bucket.upload_file of the results file.
PerformUpload ==
  /\ ppc = "upload"
  /\ storage' = storage \cup {ResultsKey}
  /\ ppc' = "update"
  /\ UNCHANGED <<gpc, genLocals, gen_result, status, message, graph_data,
                 analysis_results, jobVars, deliveries, dpc, drows,
                 primVars, clientVars>>

\* UPDATE jobs SET status = 'completed', resultsfilekey = key WHERE jobid:
\* no row is changed when the job's row is gone.
PerformUpdate ==
  /\ ppc = "update"
  /\ job' = IF job.exists
            THEN [job EXCEPT !.status = "completed", !.resultsfilekey = ResultsKey]
            ELSE job
  /\ ppc' = "idle"
  /\ UNCHANGED <<gpc, genLocals, gen_result, status, message, graph_data,
                 analysis_results, areq, astatus, trigger, storage,
                 deliveries, dpc, drows, primVars, clientVars>>

\* The job row after the except block's UPDATE jobs SET status = 'error'
\* WHERE jobid.
ErrorRow(j) == IF j.exists THEN [j EXCEPT !.status = "error"] ELSE j

\* The except block of final_perform_analysis.
PerformFail ==
  /\ ppc = "failed"
  /\ job' = ErrorRow(job)
  /\ ppc' = "idle"
  /\ UNCHANGED <<gpc, genLocals, gen_result, status, message, graph_data,
                 analysis_results, areq, astatus, trigger, storage,
                 deliveries, dpc, drows, primVars, clientVars>>

\* The asynchronous invocation's event is delivered once more.
Redeliver ==
  /\ ~trigger.pending
  /\ ppc = "idle"
  /\ deliveries >= 1
  /\ deliveries < MaxDeliveries
  /\ trigger' = [pending |-> TRUE, type |-> areq.type, root |-> areq.root]
  /\ UNCHANGED <<gpc, genLocals, gen_result, status, message, graph_data,
                 analysis_results, areq, astatus, job, raceVars,
                 primVars, clientVars>>

\* final_delete_all_jobs: SELECT * FROM jobs.
DeleteSelect ==
  /\ dpc = "idle"
  /\ drows' = IF job.exists THEN <<job>> ELSE <<>>
  /\ dpc' = "objects"
  /\ UNCHANGED <<gpc, genLocals, gen_result, status, message, graph_data,
                 analysis_results, jobVars, storage, ppc, deliveries,
                 primVars, clientVars>>

\* final_delete_all_jobs: the results file of every selected row that has
\* a key is deleted from storage.
DeleteObjects ==
  /\ dpc = "objects"
  /\ storage' = storage \ {drows[i].resultsfilekey :
                              i \in {j \in DOMAIN drows : drows[j].resultsfilekey # "NULL"}}
  /\ dpc' = "rows"
  /\ UNCHANGED <<gpc, genLocals, gen_result, status, message, graph_data,
                 analysis_results, jobVars, ppc, deliveries, drows,
                 primVars, clientVars>>

\* final_delete_all_jobs: DELETE FROM jobs.
DeleteRows ==
  /\ dpc = "rows"
  /\ job' = NoJob
  /\ dpc' = "done"
  /\ UNCHANGED <<gpc, genLocals, gen_result, status, message, graph_data,
                 analysis_results, areq, astatus, trigger, storage, ppc,
                 deliveries, drows, primVars, clientVars>>

NextJobs ==
  \/ StartAnalysis
  \/ PerformRead
  \/ PerformUpload
  \/ PerformUpdate
  \/ PerformFail
  \/ Redeliver
  \/ DeleteSelect
  \/ DeleteObjects
  \/ DeleteRows

SpecJobs == InitJobs /\ [][NextJobs]_vars

\* The has_cycle job of a stored graph of any order: start_analysis has
\* accepted the request, inserted the job row and sent the trigger.
InitOrders ==
  /\ NoGeneration
  /\ NoRace
  /\ NoPrim
  /\ NoClient
  /\ IsOrderedGraph(graph_data, MaxV) \/ IsParallelGraph(graph_data, MaxV)
  /\ analysis_results = Result("none", "none")
  /\ areq = [type |-> "has_cycle", root |-> None]
  /\ astatus = 200
  /\ job = [exists |-> TRUE, status |-> "processing", resultsfilekey |-> "NULL"]
  /\ trigger = [pending |-> TRUE, type |-> "has_cycle", root |-> None]

NextOrders == Analyze

SpecOrders == InitOrders /\ [][NextOrders]_vars

\* =================================================================
\* Properties
\* =================================================================
\* The stored graph, read as a mathematical graph.
GV == Range(graph_data.vertices)
GE == Range(graph_data.edges)

Joins(e, a, b) == (e[1] = a /\ e[2] = b) \/ (e[1] = b /\ e[2] = a)
Adjacent(E, a, b) == \E e \in E : Joins(e, a, b)

RECURSIVE Closure(_, _)
\* The vertices joined to a vertex of R by a path of edges of E.
Closure(R, E) ==
  LET R2 == R \cup {v \in GV : \E u \in R : Adjacent(E, u, v)}
  IN IF R2 = R THEN R ELSE Closure(R2, E)

Spans(E) == GV # {} /\ Closure({CHOOSE v \in GV : TRUE}, E) = GV
WellFormed == \A e \in GE : e[1] \in GV /\ e[2] \in GV
GraphConnected == WellFormed /\ Spans(GE)

RECURSIVE TotalWeight(_)
TotalWeight(E) ==
  IF E = {} THEN 0
  ELSE LET e == CHOOSE x \in E : TRUE IN e[3] + TotalWeight(E \ {e})

RECURSIVE SeqWeight(_)
SeqWeight(s) == IF s = <<>> THEN 0 ELSE Head(s)[3] + SeqWeight(Tail(s))

SpanningTrees == {S \in SUBSET GE : Cardinality(S) = Cardinality(GV) - 1 /\ Spans(S)}

EdgeWeight(a, b) == (CHOOSE e \in GE : Joins(e, a, b))[3]

RECURSIVE PathWeight(_)
PathWeight(p) ==
  IF Len(p) <= 1 THEN 0 ELSE EdgeWeight(p[1], p[2]) + PathWeight(Tail(p))

Min(S) == CHOOSE x \in S : \A y \in S : x <= y

\* D is a set of <<vertex, weight>> pairs, weight -1 for "no walk".
At(D, v) == (CHOOSE p \in D : p[1] = v)[2]

RECURSIVE Within(_, _)
\* From D, the least weights of walks from the root of at most k edges more
\* than D accounts for.
Within(D, k) ==
  IF k = 0 THEN D
  ELSE Within({<<v,
                 LET via == {At(D, u) + EdgeWeight(u, v) :
                               u \in {x \in GV : At(D, x) # -1 /\ Adjacent(GE, x, v)}}
                     all == via \cup (IF At(D, v) # -1 THEN {At(D, v)} ELSE {})
                 IN IF all = {} THEN -1 ELSE Min(all)>> : v \in GV},
              k - 1)

\* The least total weight of a path from r to each vertex, -1 when there is none.
MinDistances(r) == Within({<<x, IF x = r THEN 0 ELSE -1>> : x \in GV}, Cardinality(GV))

HasTriangle ==
  WellFormed /\ \E a, b, c \in GV :
    /\ a # b /\ b # c /\ a # c
    /\ Adjacent(GE, a, b) /\ Adjacent(GE, b, c) /\ Adjacent(GE, a, c)

\* make_random_graph has returned or raised.
Returned == gpc \in {"returned", "done"} /\ gen_result.kind # "none"

\* vertices is 0 .. num_vertices - 1, each once.
AllVertices ==
  /\ Len(vertices) = num_vertices
  /\ \A k \in 1 .. num_vertices : vertices[k] = k - 1

\* x is one of the first floor(V/2) vertices in declaration order.
InFirstHalf(x) == \E k \in 1 .. (Len(vertices) \div 2) : vertices[k] = x

\* ---------------------------------------------------------------- C1
\* C1: for every recognized type and every (vertices, edges) pair accepted
\* by validate_parameters, make_random_graph returns a graph description or
\* an error record carrying a message; it never raises.
C1_GeneratorReturnsGraphOrError ==
  Returned =>
    \/ gen_result.kind = "graph" /\ AllVertices
    \/ gen_result.kind = "error" /\ gen_result.message # ""

\* ---------------------------------------------------------------- C2
\* C2: on a connected graph with V vertices the mst analysis returns V-1
\* edges, each an edge of the graph with its weight, that form a spanning
\* tree whose total weight is at most that of every spanning tree.
C2_MstIsMinimumSpanningTree ==
  (analysis_results.type = "mst" /\ GraphConnected) =>
    /\ analysis_results.kind = "list"
    /\ LET T == analysis_results.list
       IN /\ Len(T) = Cardinality(GV) - 1
          /\ \A i \in DOMAIN T :
               \E e \in GE : Joins(e, T[i][1], T[i][2]) /\ e[3] = T[i][3]
          /\ Spans(Range(T))
          /\ \A S \in SpanningTrees : SeqWeight(T) <= TotalWeight(S)

\* An mst result on a connected 4-vertex graph with a heavier spanning tree.
C2_Witness ==
  /\ analysis_results.type = "mst"
  /\ analysis_results.kind = "list"
  /\ GraphConnected
  /\ Cardinality(GV) = 4
  /\ Cardinality(GE) >= 4
  /\ \E S \in SpanningTrees : SeqWeight(analysis_results.list) < TotalWeight(S)

\* ---------------------------------------------------------------- C3
\* C3: shortest_paths reports distance 0 for the root, and every reported
\* path starts at the root, ends at its vertex, steps along edges of the
\* graph, and weighs the reported distance.
C3_ShortestPathsAreWeightedWalks ==
  (analysis_results.type = "shortest_paths" /\ analysis_results.kind = "paths") =>
    LET r == analysis_results.root
        P == analysis_results.paths
    IN /\ P[r].distance = 0
       /\ \A v \in DOMAIN P :
            P[v].has_path =>
              LET p == P[v].path
              IN /\ Len(p) >= 1
                 /\ p[1] = r
                 /\ p[Len(p)] = v
                 /\ \A i \in 1 .. Len(p) - 1 : Adjacent(GE, p[i], p[i + 1])
                 /\ PathWeight(p) = P[v].distance

\* A reported path of two edges to a vertex that is also a neighbour of the root.
C3_Witness ==
  /\ analysis_results.type = "shortest_paths"
  /\ analysis_results.kind = "paths"
  /\ \E v \in DOMAIN analysis_results.paths :
       /\ analysis_results.paths[v].has_path
       /\ Len(analysis_results.paths[v].path) = 3
       /\ Adjacent(GE, analysis_results.root, v)

\* ---------------------------------------------------------------- C4
\* C4: the distance shortest_paths reports for a reachable vertex is the
\* least total weight of a path from the root to it.
C4_ShortestPathsAreShortest ==
  (analysis_results.type = "shortest_paths" /\ analysis_results.kind = "paths") =>
    LET best == MinDistances(analysis_results.root)
    IN \A v \in GV :
         At(best, v) # -1 => analysis_results.paths[v].distance = At(best, v)

\* A vertex reached over three edges for less than its direct edge from the root.
C4_Witness ==
  /\ analysis_results.type = "shortest_paths"
  /\ analysis_results.kind = "paths"
  /\ \E v \in GV :
       /\ Adjacent(GE, analysis_results.root, v)
       /\ analysis_results.paths[v].distance < EdgeWeight(analysis_results.root, v)
       /\ Len(analysis_results.paths[v].path) = 4

\* ---------------------------------------------------------------- C5
\* C5: for V-1 <= E <= V(V-1)/2 the "connected" generator produces a graph,
\* and is_connected returns true on it.
C5_ConnectedGraphsAreConnected ==
  (/\ gtype = "connected"
   /\ Returned
   /\ num_vertices - 1 <= num_edges
   /\ num_edges <= (num_vertices * (num_vertices - 1)) \div 2) =>
    /\ gen_result.kind = "graph"
    /\ analysis_results.type = "is_connected" =>
         analysis_results.kind = "bool" /\ analysis_results.bool

\* A "connected" graph of 4 vertices with more edges than a tree, analysed.
C5_Witness ==
  /\ gtype = "connected"
  /\ status = 200
  /\ num_vertices = 4
  /\ Len(graph_data.edges) = num_edges
  /\ num_edges > num_vertices - 1
  /\ analysis_results.type = "is_connected"
  /\ analysis_results.bool

\* ---------------------------------------------------------------- C6
\* C6: has_cycle returns false on every graph the "acyclic" generator and
\* the "tree" generator produce.
C6_ForestsHaveNoCycle ==
  (gtype \in {"acyclic", "tree"} /\ analysis_results.type = "has_cycle") =>
    analysis_results.kind = "bool" /\ ~analysis_results.bool

\* An "acyclic" graph of two spores over 4 vertices, analysed.
C6_Witness ==
  /\ gtype = "acyclic"
  /\ status = 200
  /\ num_vertices = 4
  /\ Len(graph_data.edges) = 2
  /\ analysis_results.type = "has_cycle"
  /\ analysis_results.kind = "bool"
  /\ ~analysis_results.bool

\* ---------------------------------------------------------------- C7
\* C7: the "tree" generator returns V vertices and V-1 edges on which
\* is_connected returns true; a requested edge count other than V-1 yields
\* an error record.
C7_TreeGenerator ==
  (gtype = "tree" /\ Returned) =>
    IF num_edges = num_vertices - 1
    THEN /\ gen_result.kind = "graph"
         /\ AllVertices
         /\ Len(edges) = num_vertices - 1
         /\ analysis_results.type = "is_connected" =>
              analysis_results.kind = "bool" /\ analysis_results.bool
    ELSE gen_result.kind = "error"

\* A "tree" graph of 4 vertices, analysed by is_connected.
C7_Witness ==
  /\ gtype = "tree"
  /\ status = 200
  /\ num_vertices = 4
  /\ Len(graph_data.edges) = 3
  /\ analysis_results.type = "is_connected"
  /\ analysis_results.bool

\* ---------------------------------------------------------------- C8
\* C8: the "complete" generator returns V(V-1)/2 edges, exactly one for
\* every pair of distinct vertices; a requested edge count other than
\* V(V-1)/2 yields an error record.
C8_CompleteGenerator ==
  (gtype = "complete" /\ Returned) =>
    IF num_edges = (num_vertices * (num_vertices - 1)) \div 2
    THEN /\ gen_result.kind = "graph"
         /\ Len(edges) = (num_vertices * (num_vertices - 1)) \div 2
         /\ \A a, b \in 0 .. num_vertices - 1 :
              a # b => Cardinality({i \in DOMAIN edges : Joins(edges[i], a, b)}) = 1
    ELSE gen_result.kind = "error"

\* A "complete" graph of 4 vertices has been returned.
C8_Witness ==
  /\ gtype = "complete"
  /\ gen_result.kind = "graph"
  /\ num_vertices = 4
  /\ Len(edges) = 6

\* ---------------------------------------------------------------- C9
\* C9: no edge of a "bipartite" graph joins two vertices of the same half,
\* the halves being the first floor(V/2) vertices and the others.
C9_BipartiteHalves ==
  (gtype = "bipartite" /\ gen_result.kind = "graph") =>
    \A i \in DOMAIN edges : InFirstHalf(edges[i][1]) # InFirstHalf(edges[i][2])

\* A "bipartite" graph of 4 vertices and at least 3 edges has been returned.
C9_Witness ==
  /\ gtype = "bipartite"
  /\ gen_result.kind = "graph"
  /\ num_vertices = 4
  /\ Len(edges) >= 3

\* ---------------------------------------------------------------- C10
\* C10: on a graph that contains a 3-cycle has_cycle returns a vertex
\* sequence of length at least 4 whose first and last elements are equal.
C10_TriangleIsReported ==
  (analysis_results.type = "has_cycle" /\ HasTriangle) =>
    /\ analysis_results.kind = "list"
    /\ Len(analysis_results.list) >= 4
    /\ analysis_results.list[1] = analysis_results.list[Len(analysis_results.list)]

\* has_cycle has answered on a 4-vertex graph that contains a 3-cycle.
C10_Witness ==
  /\ analysis_results.type = "has_cycle"
  /\ analysis_results.kind = "list"
  /\ HasTriangle
  /\ Cardinality(GV) = 4

\* The vertices joined by a path to the first declared vertex.
FromFirst == Closure({graph_data.vertices[1]}, GE)

\* --------------------------------------------------------------- C11
\* C11: is_connected on a graph with a declared vertex answers true
\* exactly when every declared vertex is joined by a path to the first
\* declared vertex; on the vertices 0, 1, 2 without edges it answers false.
C11_IsConnectedIffAllReachable ==
  (analysis_results.type = "is_connected" /\ WellFormed /\ GV # {}) =>
    /\ analysis_results.kind = "bool"
    /\ analysis_results.bool = (FromFirst = GV)

C11_Witness ==
  /\ analysis_results.type = "is_connected"
  /\ graph_data.vertices = <<0, 1, 2>>
  /\ graph_data.edges = <<>>
  /\ analysis_results.kind = "bool"
  /\ ~analysis_results.bool

\* --------------------------------------------------------------- C12
\* C12: mst answers false, without an edge list, when some declared vertex
\* is not joined to the first declared vertex, and answers an edge list
\* only when every declared vertex is.
C12_MstFalseWhenDisconnected ==
  (analysis_results.type = "mst" /\ WellFormed /\ GV # {}) =>
    IF FromFirst = GV
    THEN analysis_results.kind = "list"
    ELSE analysis_results.kind = "bool" /\ ~analysis_results.bool

C12_Witness ==
  /\ analysis_results.type = "mst"
  /\ WellFormed
  /\ Len(graph_data.edges) >= 2
  /\ FromFirst # GV
  /\ analysis_results.kind = "bool"
  /\ ~analysis_results.bool

\* --------------------------------------------------------------- C13
\* C13: the shortest_paths result has an entry for every declared vertex;
\* a vertex not joined to the root has distance -1 and no path, and a
\* vertex joined to the root never has distance -1.
C13_UnreachableHasNoPath ==
  (analysis_results.type = "shortest_paths" /\ WellFormed) =>
    /\ analysis_results.kind = "paths"
    /\ DOMAIN analysis_results.paths = GV
    /\ \A v \in GV :
         IF v \in Closure({analysis_results.root}, GE)
         THEN analysis_results.paths[v].distance # -1
         ELSE /\ analysis_results.paths[v].distance = -1
              /\ ~analysis_results.paths[v].has_path

C13_Witness ==
  /\ analysis_results.type = "shortest_paths"
  /\ analysis_results.kind = "paths"
  /\ \E v, w \in GV :
       /\ v # analysis_results.root
       /\ analysis_results.paths[v].distance > 0
       /\ analysis_results.paths[w].distance = -1
       /\ ~analysis_results.paths[w].has_path

\* --------------------------------------------------------------- C14
\* C14: reachable_nodes lists exactly the vertices joined to the root by
\* a path, the root among them, and lists no vertex twice.
C14_ReachableNodesExact ==
  (analysis_results.type = "reachable_nodes" /\ WellFormed) =>
    /\ analysis_results.kind = "reachable"
    /\ Range(analysis_results.reachable) = Closure({analysis_results.root}, GE)
    /\ analysis_results.root \in Range(analysis_results.reachable)
    /\ Len(analysis_results.reachable) = Cardinality(Range(analysis_results.reachable))

C14_Witness ==
  /\ analysis_results.type = "reachable_nodes"
  /\ analysis_results.kind = "reachable"
  /\ Len(analysis_results.reachable) >= 2
  /\ Len(analysis_results.reachable) < Cardinality(GV)

\* --------------------------------------------------------------- C15
\* The generate request is one the validator must refuse.
InvalidRequest ==
  \/ gtype \notin {"any", "complete", "connected", "acyclic", "tree", "bipartite"}
  \/ ~(num_vertices = -1 \/ num_vertices > 0)
  \/ ~(num_edges = -1 \/ num_edges >= 0)
  \/ (num_edges # -1 /\ num_vertices = -1)

\* The request has been validated and nothing else has run.
Validated ==
  \/ gpc = "resolve"
  \/ gpc = "done" /\ gen_result.kind = "none" /\ gtype # "none"

\* C15: validation of a generate request answers an error exactly when the
\* type is not one of the six, or the vertex count is neither -1 nor
\* positive, or the edge count is neither -1 nor non-negative, or an edge
\* count comes without a vertex count; otherwise it answers no error.
C15_ValidationRejectsExactly ==
  Validated => ((gpc = "done" /\ status = 400) <=> InvalidRequest)

C15_Witness ==
  /\ gpc = "done"
  /\ status = 400
  /\ gen_result.kind = "none"
  /\ gtype = "tree"
  /\ num_vertices = 0
  /\ num_edges = -1

\* --------------------------------------------------------------- C16
\* The analysis request is one the validator must refuse.
InvalidAnalysisRequest ==
  \/ areq.type \notin {"is_connected", "has_cycle", "shortest_paths",
                       "reachable_nodes", "mst"}
  \/ /\ areq.type \in {"shortest_paths", "reachable_nodes"}
     /\ (areq.root = None \/ areq.root \notin GV)

\* C16: an analysis request is answered with an error when its kind is
\* not one of the five or when it is shortest_paths or reachable_nodes and
\* the root is absent or not declared, and then no job row exists and no
\* analysis is ever triggered; every other request, with or without a
\* root, is accepted.
C16_AnalysisRequestValidation ==
  (areq.type # "none") =>
    IF InvalidAnalysisRequest
    THEN /\ astatus = 400
         /\ ~job.exists
         /\ ~trigger.pending
         /\ analysis_results.type = "none"
    ELSE /\ astatus = 200
         /\ job.exists

C16_Witness ==
  /\ areq.type = "reachable_nodes"
  /\ Cardinality(GV) = 3
  /\ areq.root = 3
  /\ astatus = 400
  /\ ~job.exists
  /\ ~trigger.pending

\* --------------------------------------------------------------- C17
\* The generate request of the scenario: bipartite, no vertex count, 100
\* edges.
BipartiteScenario ==
  gtype = "bipartite" /\ num_vertices = -1 /\ num_edges = 100

\* C17 as stated: the scenario request is answered with the error record
\* of the feasibility test of make_random_graph.
C17_ScenarioIsInfeasibleSize ==
  (BipartiteScenario /\ gpc = "done") =>
    (status = 400 /\ message = "number of vertices and edges is illegal")

\* C17: the scenario request is answered with an error record and no
\* graph; the error is the validator's "cannot specify number of edges but
\* not number of vertices", and make_random_graph is not entered.
C17_ScenarioIsRejectedByValidation ==
  (BipartiteScenario /\ gpc # "validate") =>
    /\ gpc = "done"
    /\ status = 400
    /\ message = "cannot specify number of edges but not number of vertices"
    /\ gen_result.kind = "none"
    /\ ~graph_data.present

C17_Witness ==
  /\ BipartiteScenario
  /\ gpc = "done"
  /\ status = 400
  /\ message = "cannot specify number of edges but not number of vertices"

\* --------------------------------------------------------------- C18
\* C18: on a graph with an edge whose endpoint is not declared, the
\* analysis of every kind raises while the adjacency model is built: no
\* result is stored, and the job ends with status "error", never with
\* "completed".
C18_DanglingEdgeFaults ==
  (~WellFormed /\ job.exists) =>
    /\ job.status \in {"processing", "error"}
    /\ job.resultsfilekey = "NULL"
    /\ analysis_results.kind \in {"none", "fault"}
    /\ ~trigger.pending => (job.status = "error" /\ analysis_results.kind = "fault")

C18_Witness ==
  /\ ~WellFormed
  /\ Len(graph_data.edges) = 2
  /\ areq.type = "is_connected"
  /\ ~trigger.pending
  /\ job.exists
  /\ job.status = "error"
  /\ analysis_results.kind = "fault"

\* --------------------------------------------------------------- C19
\* C19: every graph make_random_graph returns has the vertices 0 .. V-1,
\* each once, every edge joins declared vertices with start < end, and no
\* two edges join the same pair.
C19_GeneratedGraphsWellFormed ==
  (gen_result.kind = "graph") =>
    /\ AllVertices
    /\ \A k \in DOMAIN edges :
         /\ edges[k][1] \in Range(vertices)
         /\ edges[k][2] \in Range(vertices)
         /\ edges[k][1] < edges[k][2]
    /\ \A j, k \in DOMAIN edges :
         (j # k) => <<edges[j][1], edges[j][2]>> # <<edges[k][1], edges[k][2]>>

C19_Witness ==
  /\ gen_result.kind = "graph"
  /\ gtype = "connected"
  /\ num_vertices = 4
  /\ Len(edges) = 5

\* --------------------------------------------------------------- C20
\* The counts are within the bound of the type, in the words of the spec.
WithinBound ==
  CASE gtype = "any" -> num_edges <= (num_vertices * (num_vertices - 1)) \div 2
    [] gtype = "connected" ->
         /\ num_vertices - 1 <= num_edges
         /\ num_edges <= (num_vertices * (num_vertices - 1)) \div 2
    [] gtype = "acyclic" -> num_edges <= num_vertices - 1
    [] gtype = "bipartite" -> num_edges <= (num_vertices * num_vertices) \div 4
    [] OTHER -> FALSE

\* C20: for the types any, connected, acyclic and bipartite, when the
\* counts V and E are within the feasibility bound of the type, the graph
\* returned has exactly V vertices and E edges, whatever the random draws.
C20_ExactCounts ==
  (Returned /\ num_vertices > 0 /\ num_edges >= 0 /\ WithinBound) =>
    /\ gen_result.kind = "graph"
    /\ Len(vertices) = num_vertices
    /\ Len(edges) = num_edges

C20_Witness ==
  /\ Returned
  /\ gtype = "acyclic"
  /\ num_vertices = 4
  /\ num_edges = 2
  /\ gen_result.kind = "graph"
  /\ Len(edges) = 2

\* --------------------------------------------------------------- C23
\* The connected components of the stored graph.
Components == {Closure({v}, GE) : v \in GV}

Max(S) == CHOOSE x \in S : \A y \in S : y <= x

\* C23: the graph the "acyclic" generator returns for V vertices and
\* E <= V-1 edges has exactly V-E connected components, each a tree over a
\* contiguous block of vertex ids, and the sizes of two components differ
\* by at most 1.
C23_ForestComponents ==
  (gtype = "acyclic" /\ graph_data.present) =>
    /\ Cardinality(Components) = num_vertices - num_edges
    /\ \A c \in Components :
         /\ c = Min(c) .. Max(c)
         /\ Cardinality({e \in GE : e[1] \in c /\ e[2] \in c}) = Cardinality(c) - 1
    /\ \A c, d \in Components : Cardinality(c) - Cardinality(d) <= 1

C23_Witness ==
  /\ gtype = "acyclic"
  /\ graph_data.present
  /\ num_vertices = 4
  /\ num_edges = 1
  /\ Cardinality(Components) = 3

\* --------------------------------------------------------------- C24
\* C24: the adjacency model analyze_graph builds from a well-formed graph
\* description has an entry for every declared vertex, empty for a vertex
\* no edge touches; b is a neighbour of a with weight w exactly when a is
\* a neighbour of b with weight w; and a neighbour is always the other
\* end of some edge.
C24_AdjacencySymmetric ==
  (analysis_results.type # "none" /\ WellFormed) =>
    LET graph_AL == BuildAL(graph_data)
    IN /\ DOMAIN graph_AL = GV
       /\ \A a \in GV :
            (\A x \in GE : x[1] # a /\ x[2] # a) => graph_AL[a] = <<>>
       /\ \A a, b \in GV :
            /\ HasKey(graph_AL[a], b) <=> HasKey(graph_AL[b], a)
            /\ HasKey(graph_AL[a], b) =>
                 /\ DictGet(graph_AL[a], b) = DictGet(graph_AL[b], a)
                 /\ Adjacent(GE, a, b)

C24_Witness ==
  /\ analysis_results.type = "reachable_nodes"
  /\ WellFormed
  /\ Cardinality(GV) = 4
  /\ Cardinality(GE) = 2
  /\ \E a \in GV : BuildAL(graph_data)[a] = <<>>
  /\ \E a, b \in GV : HasKey(BuildAL(graph_data)[a], b) /\ HasKey(BuildAL(graph_data)[b], a)

\* --------------------------------------------------------------- C25
\* e edges on v vertices are inside the feasibility bound of the type.
InsideBound(type, v, e) ==
  CASE type = "any" -> 0 <= e /\ e <= (v * (v - 1)) \div 2
    [] type = "complete" -> e = (v * (v - 1)) \div 2
    [] type = "connected" -> v - 1 <= e /\ e <= (v * (v - 1)) \div 2
    [] type = "acyclic" -> 0 <= e /\ e <= v - 1
    [] type = "tree" -> e = v - 1
    [] type = "bipartite" -> 0 <= e /\ e <= (v * v) \div 4
    [] OTHER -> FALSE

C29_EmptyVertexListFaults ==
  (/\ graph_data.present
   /\ graph_data.vertices = <<>>
   /\ analysis_results.type \in {"is_connected", "mst"}) =>
    /\ analysis_results.kind = "fault"
    /\ job.status = "error"
    /\ job.resultsfilekey = "NULL"

C29_Witness ==
  /\ graph_data.present
  /\ graph_data.vertices = <<>>
  /\ analysis_results.type = "mst"
  /\ analysis_results.kind = "fault"
  /\ job.status = "error"

\* --------------------------------------------------------------- C21
\* No edge of the stored graph is a self-loop.
NoSelfLoops == \A x \in GE : x[1] # x[2]

\* No two entries of the edge list join the same pair of vertices.
NoParallelEdges ==
  \A j, k \in DOMAIN graph_data.edges :
    (j # k) => ~Joins(graph_data.edges[j], graph_data.edges[k][1], graph_data.edges[k][2])

\* A graph without self-loops or parallel edges has no cycle exactly when
\* it has as many edges as vertices less components.
Forest == Cardinality(GE) = Cardinality(GV) - Cardinality(Components)

\* C21: on a graph without self-loops or parallel edges has_cycle answers
\* false exactly when no connected component contains a cycle, and a
\* vertex sequence otherwise, in whatever order the vertices are declared
\* and the edges listed.
C21_HasCycleIffCycle ==
  (/\ analysis_results.type = "has_cycle"
   /\ WellFormed /\ NoSelfLoops /\ NoParallelEdges) =>
    IF Forest
    THEN analysis_results.kind = "bool" /\ ~analysis_results.bool
    ELSE analysis_results.kind = "list"

C21_Witness ==
  /\ analysis_results.type = "has_cycle"
  /\ analysis_results.kind = "list"
  /\ graph_data.vertices = <<3, 0, 2, 1>>
  /\ Len(graph_data.edges) = 3
  /\ NoParallelEdges
  /\ \A x \in GE : x[1] # 3 /\ x[2] # 3

\* --------------------------------------------------------------- C27
\* C27: a vertex sequence has_cycle returns on a graph without self-loops
\* is a simple cycle of the graph: consecutive elements are adjacent, the
\* first and the last element are the same vertex, and no other vertex
\* occurs twice.
C27_ReturnedCycleIsSimple ==
  (/\ analysis_results.type = "has_cycle"
   /\ analysis_results.kind = "list"
   /\ WellFormed /\ NoSelfLoops) =>
    LET cycle == analysis_results.list
    IN /\ Len(cycle) >= 4
       /\ cycle[1] = cycle[Len(cycle)]
       /\ \A k \in 1 .. Len(cycle) - 1 : Adjacent(GE, cycle[k], cycle[k + 1])
       /\ \A j, k \in 1 .. Len(cycle) - 1 : (j # k) => cycle[j] # cycle[k]

C27_Witness ==
  /\ analysis_results.type = "has_cycle"
  /\ analysis_results.kind = "list"
  /\ ~NoParallelEdges
  /\ Cardinality(GV) = 4
  /\ Len(analysis_results.list) = 5

\* --------------------------------------------------------------- C22
\* C22 as stated: Prim's loop ends as soon as V-1 edges have been chosen.
C22_LoopEndsAtSpanning ==
  (mpc = "loop" /\ Len(mst_es) = Cardinality(GV) - 1) => mst_pq = {}

\* C22: on a connected graph Prim's loop always terminates; it ends when
\* the heap is empty, and then exactly V-1 edges have been chosen and the
\* tree spans all vertices; once V-1 edges are chosen every edge left in
\* the heap is off the fringe, and the loop pops and skips each of them.
C22_PrimTerminatesSpanning ==
  /\ <>(mpc = "done")
  /\ [](mpc = "done" =>
          /\ mst_pq = {}
          /\ Len(mst_es) = Cardinality(GV) - 1
          /\ Range(mst_vs) = GV
          /\ analysis_results = Mst(graph_data, BuildAL(graph_data)))
  /\ []((mpc = "loop" /\ Len(mst_es) = Cardinality(GV) - 1) =>
          \A cur \in mst_pq : cur[2] \in Range(mst_vs) /\ cur[3] \in Range(mst_vs))

C22_Witness ==
  /\ mpc = "done"
  /\ Cardinality(GV) = 4
  /\ Cardinality(GE) = 6
  /\ Len(mst_es) = 3

\* --------------------------------------------------------------- C26
\* C26: web_service_req sends at most 3 requests; it returns at once the
\* first response whose status code is 200, 400 or 500, tries again after
\* any other status code, and after 3 attempts returns the last response.
C26_RetriesUnlessFinal ==
  (wpc = "returned" /\ returned # None) =>
    /\ Len(responses) <= 3
    /\ returned = responses[Len(responses)]
    /\ \A k \in 1 .. Len(responses) - 1 : responses[k] \notin {200, 400, 500}
    /\ (returned \notin {200, 400, 500}) => (Len(responses) = 3)

\* C28 (as stated): the except block of a perform-analysis invocation
\* whose job is not "processing" leaves the job's status and results
\* file key as they were.
C28_FinishedJobRowUnchanged ==
  [][(ppc = "failed" /\ ppc' = "idle" /\ job.exists /\ job.status # "processing")
       => (job'.status = job.status /\ job'.resultsfilekey = job.resultsfilekey)]_vars

\* C30 (as stated): once delete_all_jobs and the perform-analysis
\* invocations have finished, every results file in storage is the one
\* an existing job row refers to.
C30_NoOrphanedResults ==
  (dpc = "done" /\ ppc = "idle" /\ ~trigger.pending /\ deliveries >= 1)
    => \A k \in storage : job.exists /\ job.resultsfilekey = k

====
